---------------------------- MODULE Spec2Model ----------------------------
(***************************************************************************)
(* Term Insurance Analyzer backend (src/backend/main.py): the plan store   *)
(* and its manual CRUD endpoints, the recommend/compare endpoints, and the *)
(* startup / scrape lifecycle.                                             *)
(*                                                                         *)
(* main.py imports run_scrape_job, start_scheduler (scraper/scheduler.py), *)
(* analyze_plans, compare_specific_plans (gemini_analyzer.py) and          *)
(* InsurancePlan, init_db (database.py).  Those files are not part of the  *)
(* sources at hand; their behaviour is taken from spec.md (sections 4.1,   *)
(* 4.3, 4.4, 4.5, 6) and marked as such where it is defined.               *)
(*                                                                         *)
(* Strings that the program compares case-insensitively or by length       *)
(* (plan_name, provider) are sequences of ASCII codes; floats are          *)
(* integers.                                                               *)
(***************************************************************************)
EXTENDS Integers, Sequences, FiniteSets, TLC

VARIABLES
    plans,      \* the InsurancePlan table: a set of rows, one per id
    nextId,     \* the next opaque identifier the table hands out
    manualIds,  \* history: ids inserted by create_plan or edited by update_plan
    resp,       \* the last operation, its input and its outcome
    nops,       \* number of operations performed so far
    stage,      \* lifespan's position
    dbReady,    \* init_db() has returned
    scheduler,  \* the recurring scheduler is running
    lock,       \* the run-lock: 0 when free, else the invocation holding it
    inv,        \* run_scrape_job invocations: their state, reason and outcome
    clock,      \* logical time of invocation starts and ends
    served      \* requests handled so far

storeVars == <<plans, nextId, manualIds>>
lifeVars  == <<stage, dbReady, scheduler, lock, inv, clock, served>>
vars      == <<plans, nextId, manualIds, resp, nops, stage, dbReady, scheduler,
               lock, inv, clock, served>>

---------------------------------------------------------------------------
(* Bounds of the model *)

MaxPlans == 2
MaxOps == 3

---------------------------------------------------------------------------
(* Strings *)

\* str.lower() / SQL lower(): ASCII upper-case letters map to lower case
Lower(s) == [i \in DOMAIN s |-> IF s[i] >= 65 /\ s[i] <= 90 THEN s[i] + 32 ELSE s[i]]

NameA1 == <<65, 49>>      \* "A1"
Namea1 == <<97, 49>>      \* "a1"
NameB1 == <<66, 49>>      \* "B1"
NameZ9 == <<90, 57>>      \* "Z9"
NameA  == <<65>>          \* "A"  (one character)
ProvXx == <<88, 120>>     \* "Xx"
ProvYy == <<89, 121>>     \* "Yy"
ProvX  == <<88>>          \* "X"  (one character)

---------------------------------------------------------------------------
(* Schemas *)

\* the fields of PlanCreate / PlanUpdate
PlanFields ==
    {"plan_name", "provider", "sum_assured_min", "sum_assured_max",
     "premium_annual", "policy_term_min", "policy_term_max", "age_min",
     "age_max", "claim_settlement_ratio", "key_features", "source_url"}

\* pydantic's Field(...) constraints of PlanCreate
PlanCreateValid(p) ==
    /\ Len(p.plan_name) >= 2
    /\ Len(p.provider) >= 2
    /\ p.sum_assured_min > 0
    /\ p.sum_assured_max > 0
    /\ p.premium_annual > 0
    /\ p.policy_term_min >= 1 /\ p.policy_term_min <= 50
    /\ p.policy_term_max >= 1 /\ p.policy_term_max <= 60
    /\ p.age_min >= 1 /\ p.age_min <= 99
    /\ p.age_max >= 1 /\ p.age_max <= 99
    /\ p.claim_settlement_ratio >= 0 /\ p.claim_settlement_ratio <= 100

\* PlanUpdate: every field Optional with default None and no constraint.
\* An Optional value is {} for None and {v} for v.
\* updates.model_dump(exclude_none=True): the fields that are not None
Supplied(updates) == {f \in PlanFields : updates[f] # {}}

Some(s) == CHOOSE v \in s : TRUE

---------------------------------------------------------------------------
(* The table *)

Ids(tbl) == {p.id : p \in tbl}

\* db.query(InsurancePlan).filter(InsurancePlan.id == plan_id).first()
\* as a set: empty when there is no such row
Row(tbl, plan_id) == {p \in tbl : p.id = plan_id}

\* the identity key of section 6: (provider, lower(plan_name))
Key(p) == <<p.provider, Lower(p.plan_name)>>

\* the table's uniqueness constraint: adding row p to tbl keeps keys unique
NoUniqueCheck(tbl, p) == TRUE
UniqueOk(tbl, p) == \A q \in tbl : q.id # p.id => Key(q) # Key(p)

\* InsurancePlan(**plan.model_dump(), source="manual") with its new id
NewRow(payload, id, src) ==
    [id |-> id, source |-> src,
     plan_name |-> payload.plan_name, provider |-> payload.provider,
     sum_assured_min |-> payload.sum_assured_min,
     sum_assured_max |-> payload.sum_assured_max,
     premium_annual |-> payload.premium_annual,
     policy_term_min |-> payload.policy_term_min,
     policy_term_max |-> payload.policy_term_max,
     age_min |-> payload.age_min, age_max |-> payload.age_max,
     claim_settlement_ratio |-> payload.claim_settlement_ratio,
     key_features |-> payload.key_features,
     source_url |-> payload.source_url]

\* for field, value in updates.model_dump(exclude_none=True).items():
\*     setattr(plan, field, value)
ApplyUpdatesMarkManual(plan, updates) ==
    [f \in DOMAIN plan |->
        IF f = "source" THEN "manual"
        ELSE IF f \in Supplied(updates) THEN Some(updates[f]) ELSE plan[f]]
ApplyUpdates(plan, updates) ==
    [f \in DOMAIN plan |->
        IF f \in Supplied(updates) THEN Some(updates[f]) ELSE plan[f]]

---------------------------------------------------------------------------
(* Data-model invariants of a Plan (spec section 3) *)

PlanInvariant(p) ==
    /\ p.sum_assured_min <= p.sum_assured_max
    /\ p.policy_term_min <= p.policy_term_max
    /\ p.age_min <= p.age_max
    /\ 0 <= p.claim_settlement_ratio /\ p.claim_settlement_ratio <= 100

---------------------------------------------------------------------------
(* Automated upsert of one normalized record (spec section 4.3) *)

\* the fields an automated upsert overwrites
MutableFields == PlanFields \ {"plan_name", "provider"}

\* steps 1-4 of the upsert algorithm: the table, the id counter and the outcome
Upsert(tbl, nid, rec, adapter) ==
    LET hit == {p \in tbl : Key(p) = Key(rec)} IN
    IF hit = {}
    THEN [plans |-> tbl \cup {NewRow(rec, nid, adapter)}, nextId |-> nid + 1,
          outcome |-> "inserted"]
    ELSE LET old == Some(hit) IN
         IF old.source = "manual"
         THEN [plans |-> tbl, nextId |-> nid, outcome |-> "skipped"]
         ELSE LET new == [f \in DOMAIN old |->
                            IF f \in MutableFields THEN rec[f] ELSE old[f]]
              IN [plans |-> (tbl \ {old}) \cup {new}, nextId |-> nid,
                  outcome |-> "updated"]

---------------------------------------------------------------------------
(* Manual CRUD endpoints *)

\* POST /api/plans
create_plan(plan) ==
    /\ stage = "serving"
    /\ nops < MaxOps
    /\ LET new_plan == NewRow(plan, nextId, "manual") IN
       IF ~PlanCreateValid(plan)
       THEN /\ resp' = [op |-> "create", status |-> 422, input |-> plan]
            /\ UNCHANGED storeVars
       ELSE IF ~UniqueOk(plans, new_plan)
       THEN /\ resp' = [op |-> "create", status |-> 500, input |-> plan]
            /\ UNCHANGED storeVars
       ELSE /\ Cardinality(plans) < MaxPlans
            /\ plans' = plans \cup {new_plan}
            /\ nextId' = nextId + 1
            /\ manualIds' = manualIds \cup {new_plan.id}
            /\ resp' = [op |-> "create", status |-> 201, input |-> plan,
                        id |-> new_plan.id]
    /\ nops' = nops + 1
    /\ served' = served + 1
    /\ UNCHANGED <<stage, dbReady, scheduler, lock, inv, clock>>

\* PUT /api/plans/{plan_id}
update_plan(plan_id, updates) ==
    /\ stage = "serving"
    /\ nops < MaxOps
    /\ LET found == Row(plans, plan_id) IN
       IF found = {}
       THEN /\ resp' = [op |-> "update", status |-> 404, id |-> plan_id,
                        updates |-> updates]
            /\ UNCHANGED storeVars
       ELSE LET plan == Some(found)
                new == ApplyUpdates(plan, updates)
            IN IF ~UniqueOk(plans, new)
               THEN /\ resp' = [op |-> "update", status |-> 500, id |-> plan_id,
                                updates |-> updates]
                    /\ UNCHANGED storeVars
               ELSE /\ plans' = (plans \ {plan}) \cup {new}
                    /\ manualIds' = IF Supplied(updates) = {} THEN manualIds
                                    ELSE manualIds \cup {plan_id}
                    /\ resp' = [op |-> "update", status |-> 200, id |-> plan_id,
                                updates |-> updates]
                    /\ UNCHANGED nextId
    /\ nops' = nops + 1
    /\ served' = served + 1
    /\ UNCHANGED <<stage, dbReady, scheduler, lock, inv, clock>>

\* DELETE /api/plans/{plan_id}
delete_plan(plan_id) ==
    /\ stage = "serving"
    /\ nops < MaxOps
    /\ LET found == Row(plans, plan_id) IN
       IF found = {}
       THEN /\ resp' = [op |-> "delete", status |-> 404, id |-> plan_id]
            /\ UNCHANGED storeVars
       ELSE /\ plans' = plans \ found
            /\ manualIds' = manualIds \ {plan_id}
            /\ resp' = [op |-> "delete", status |-> 200, id |-> plan_id]
            /\ UNCHANGED nextId
    /\ nops' = nops + 1
    /\ served' = served + 1
    /\ UNCHANGED <<stage, dbReady, scheduler, lock, inv, clock>>

\* GET /api/plans/{plan_id}
get_plan(plan_id) ==
    /\ stage = "serving"
    /\ nops < MaxOps
    /\ LET found == Row(plans, plan_id) IN
       resp' = [op |-> "get", status |-> IF found = {} THEN 404 ELSE 200,
                id |-> plan_id, body |-> found]
    /\ nops' = nops + 1
    /\ served' = served + 1
    /\ UNCHANGED storeVars
    /\ UNCHANGED <<stage, dbReady, scheduler, lock, inv, clock>>

\* one record of a scrape run reaching the store while requests are served
ScrapeUpsert(rec, adapter) ==
    /\ stage = "serving"
    /\ nops < MaxOps
    /\ LET r == Upsert(plans, nextId, rec, adapter) IN
       /\ r.outcome = "inserted" => Cardinality(plans) < MaxPlans
       /\ plans' = r.plans
       /\ nextId' = r.nextId
       /\ resp' = [op |-> "upsert", outcome |-> r.outcome, rec |-> rec,
                   adapter |-> adapter]
    /\ nops' = nops + 1
    /\ UNCHANGED <<manualIds, stage, dbReady, scheduler, lock, inv, clock, served>>

---------------------------------------------------------------------------
(* Inputs of the store specification *)

\* Plan A of the spec's first end-to-end scenario
BasePlan ==
    [plan_name |-> NameA1, provider |-> ProvXx,
     sum_assured_min |-> 50, sum_assured_max |-> 100,
     premium_annual |-> 5000,
     policy_term_min |-> 10, policy_term_max |-> 30,
     age_min |-> 18, age_max |-> 60,
     claim_settlement_ratio |-> 98,
     key_features |-> "", source_url |-> ""]

FieldSamples(f) ==
    CASE f = "plan_name" -> {NameA1, Namea1, NameB1, NameA}
      [] f = "provider" -> {ProvXx, ProvYy, ProvX}
      [] f = "sum_assured_min" -> {0, 50, 200}
      [] f = "sum_assured_max" -> {0, 25, 100}
      [] f = "premium_annual" -> {0, 5000, 9999}
      [] f = "policy_term_min" -> {0, 10, 40, 51}
      [] f = "policy_term_max" -> {0, 5, 30, 61}
      [] f = "age_min" -> {0, 18, 70, 100}
      [] f = "age_max" -> {0, 17, 60, 100}
      [] f = "claim_settlement_ratio" -> {0 - 1, 80, 98, 101}
      [] f = "key_features" -> {""}
      [] f = "source_url" -> {""}

\* request bodies of POST /api/plans: Plan A with one field varied
CreateInputs ==
    UNION {{[BasePlan EXCEPT ![f] = v] : v \in FieldSamples(f)} : f \in PlanFields}

NoUpdates == [f \in PlanFields |-> {}]

\* values a PUT body may carry for one field; PlanUpdate constrains none of them
UpdateSamples(f) ==
    CASE f = "plan_name" -> {Namea1, NameB1}
      [] f = "provider" -> {ProvYy}
      [] f = "sum_assured_min" -> {200}
      [] f = "sum_assured_max" -> {25}
      [] f = "premium_annual" -> {9999}
      [] f = "policy_term_min" -> {40}
      [] f = "policy_term_max" -> {5}
      [] f = "age_min" -> {70}
      [] f = "age_max" -> {17}
      [] f = "claim_settlement_ratio" -> {0 - 1, 101}
      [] f = "key_features" -> {"Rider|Waiver"}
      [] f = "source_url" -> {"https://x"}

\* request bodies of PUT /api/plans/{id}: nothing, one field, or two fields
UpdateInputs ==
    {NoUpdates}
    \cup UNION {{[NoUpdates EXCEPT ![f] = {v}] : v \in UpdateSamples(f)} : f \in PlanFields}
    \cup {[NoUpdates EXCEPT !["premium_annual"] = {9999},
                            !["claim_settlement_ratio"] = {80}]}

Adapters == {"adapter1", "adapter2"}

\* output of normalization (spec section 4.2): records that satisfy the
\* data-model invariants; the others are dropped before the store
Normalized(S) == {r \in S : PlanInvariant(r)}

UpsertInputs ==
    Normalized({[BasePlan EXCEPT !.plan_name = n, !.premium_annual = pr,
                                 !.claim_settlement_ratio = c]
                   : n \in {NameA1, Namea1, NameB1}, pr \in {7777},
                     c \in {98, 101}})

\* the plan_id of a request: a stored id, or one that is not stored
PlanIds == Ids(plans) \cup {nextId}

---------------------------------------------------------------------------
(* Recommendation engine and advisory session *)

\* pydantic's Field(...) constraints of RecommendRequest
ProfileValid(req) ==
    /\ req.age >= 18 /\ req.age <= 70
    /\ req.sum_assured > 0
    /\ req.premium_budget > 0
    /\ req.policy_term >= 5 /\ req.policy_term <= 50
    /\ req.min_csr >= 0 /\ req.min_csr <= 100

\* the dict recommend() builds for each row (no id, no source_url)
PlanData(p) ==
    [plan_name |-> p.plan_name, provider |-> p.provider, source |-> p.source,
     sum_assured_min |-> p.sum_assured_min,
     sum_assured_max |-> p.sum_assured_max,
     premium_annual |-> p.premium_annual,
     policy_term_min |-> p.policy_term_min,
     policy_term_max |-> p.policy_term_max,
     age_min |-> p.age_min, age_max |-> p.age_max,
     claim_settlement_ratio |-> p.claim_settlement_ratio,
     key_features |-> p.key_features]

\* plans_data: one dict per row, here indexed by the row's id
plans_data(tbl) == [i \in Ids(tbl) |-> PlanData(Some(Row(tbl, i)))]

\* if not plans: raise HTTPException(status_code=404, ...)
CatalogNeverEmpty(tbl) == FALSE
CatalogEmpty(tbl) == tbl = {}

\* the eligibility filter (spec section 4.4)
Eligible(d, profile) ==
    /\ d.age_min <= profile.age /\ profile.age <= d.age_max
    /\ d.sum_assured_min <= profile.sum_assured
    /\ profile.sum_assured <= d.sum_assured_max
    /\ profile.premium_budget >= d.premium_annual
    /\ d.policy_term_min <= profile.policy_term
    /\ profile.policy_term <= d.policy_term_max
    /\ d.claim_settlement_ratio >= profile.min_csr

\* the names of the plans handed to the reasoning collaborator
NamesOf(data, ids) == {data[i].plan_name : i \in ids}

\* response validation: ranked entries naming no plan of the set are dropped
KeepEveryEntry(ranked, names) == ranked
SanitizeRanked(ranked, names) == SelectSeq(ranked, LAMBDA n : n \in names)

\* what the engine may return for one collaborator answer over the plans it
\* was given: a validated result or AdvisoryError.  The spec does not say what
\* becomes of an unknown top_pick when ranked entries survive: the engine
\* either fails or falls back to the first surviving entry.
Validated(answer, names) ==
    IF answer.kind = "unreachable"
    THEN {[kind |-> "error", error |-> "AdvisoryError"]}
    ELSE LET kept == SanitizeRanked(answer.ranked, names) IN
         IF kept = <<>>
         THEN {[kind |-> "error", error |-> "AdvisoryError"]}
         ELSE IF answer.top_pick \in names
         THEN {[kind |-> "result", top_pick |-> answer.top_pick,
                ranked_plans |-> kept, overall_summary |-> "summary"]}
         ELSE {[kind |-> "error", error |-> "AdvisoryError"],
               [kind |-> "result", top_pick |-> Head(kept),
                ranked_plans |-> kept, overall_summary |-> "summary"]}

\* analyze_plans(profile, plans_data): filter, delegate, validate
analyze_plans(profile, data, answer) ==
    LET eligible == {i \in DOMAIN data : Eligible(data[i], profile)} IN
    IF eligible = {}
    THEN {[kind |-> "error", error |-> "NoEligiblePlans"]}
    ELSE Validated(answer, NamesOf(data, eligible))

\* compare_specific_plans(profile, selected): no filter, delegate, validate
compare_specific_plans(profile, data, selected, answer) ==
    Validated(answer, NamesOf(data, selected))

\* dict.get(key, default)
Get(d, key, default) == IF key \in DOMAIN d THEN d[key] ELSE default

Range(seq) == {seq[k] : k \in DOMAIN seq}

NoResult == [top_pick |-> <<>>, ranked_plans |-> <<>>, total |-> 0]

\* POST /api/recommend
recommend(req, answer) ==
    /\ stage = "serving"
    /\ nops < MaxOps
    /\ LET data == plans_data(plans)
           eligible == {i \in DOMAIN data : Eligible(data[i], req)}
           given == NamesOf(data, eligible)
       IN IF ~ProfileValid(req)
          THEN resp' = [op |-> "recommend", status |-> 422, error |-> "ValidationError",
                        req |-> req, answer |-> answer, given |-> {},
                        body |-> NoResult]
          ELSE IF CatalogEmpty(plans)
          THEN resp' = [op |-> "recommend", status |-> 404, error |-> "NoPlansInDatabase",
                        req |-> req, answer |-> answer, given |-> {},
                        body |-> NoResult]
          ELSE \E result \in analyze_plans(req, data, answer) :
                 IF result.kind = "error"
                 THEN resp' = [op |-> "recommend", status |-> 500,
                               error |-> result.error, req |-> req,
                               answer |-> answer, given |-> given,
                               body |-> NoResult]
                 ELSE resp' = [op |-> "recommend", status |-> 200, error |-> "none",
                               req |-> req, answer |-> answer, given |-> given,
                               body |-> [top_pick |-> Get(result, "top_pick", <<>>),
                                         ranked_plans |-> Get(result, "ranked_plans", <<>>),
                                         total |-> Cardinality(DOMAIN data)]]
    /\ nops' = nops + 1
    /\ served' = served + 1
    /\ UNCHANGED storeVars
    /\ UNCHANGED <<stage, dbReady, scheduler, lock, inv, clock>>

\* POST /api/compare
compare_plans_endpoint(plan_names, profile, answer) ==
    /\ stage = "serving"
    /\ nops < MaxOps
    /\ LET data == plans_data(plans)
           selected == {i \in DOMAIN data : data[i].plan_name \in Range(plan_names)}
       IN IF ~ProfileValid(profile)
          THEN resp' = [op |-> "compare", status |-> 422, error |-> "ValidationError",
                        plan_names |-> plan_names, selected |-> {},
                        body |-> NoResult]
          ELSE IF Cardinality(selected) < 2
          THEN resp' = [op |-> "compare", status |-> 400,
                        error |-> "Need at least 2 matching plans to compare",
                        plan_names |-> plan_names, selected |-> selected,
                        body |-> NoResult]
          ELSE \E result \in compare_specific_plans(profile, data, selected, answer) :
                 IF result.kind = "error"
                 THEN resp' = [op |-> "compare", status |-> 500,
                               error |-> result.error, plan_names |-> plan_names,
                               selected |-> selected, body |-> NoResult]
                 ELSE resp' = [op |-> "compare", status |-> 200, error |-> "none",
                               plan_names |-> plan_names, selected |-> selected,
                               body |-> [top_pick |-> result.top_pick,
                                         ranked_plans |-> result.ranked_plans,
                                         total |-> Cardinality(selected)]]
    /\ nops' = nops + 1
    /\ served' = served + 1
    /\ UNCHANGED storeVars
    /\ UNCHANGED <<stage, dbReady, scheduler, lock, inv, clock>>

---------------------------------------------------------------------------
(* Inputs of the advisory specification *)

\* Plan B of the spec's first end-to-end scenario
PlanB ==
    [BasePlan EXCEPT !.plan_name = NameB1, !.provider = ProvYy,
                     !.sum_assured_max = 200, !.premium_annual = 12000,
                     !.policy_term_min = 5, !.policy_term_max = 40,
                     !.age_min = 21, !.age_max = 65,
                     !.claim_settlement_ratio = 80]

\* Plan A, Plan B, Plan A's name under another provider, a second good plan
AdviceCreateInputs ==
    {BasePlan, PlanB, [BasePlan EXCEPT !.provider = ProvYy],
     [BasePlan EXCEPT !.plan_name = NameB1, !.premium_annual = 6000,
                      !.claim_settlement_ratio = 97]}

\* the profile of the spec's first end-to-end scenario
BaseProfile ==
    [age |-> 30, sum_assured |-> 75, premium_budget |-> 8000,
     policy_term |-> 20, min_csr |-> 95]

Profiles ==
    {BaseProfile,
     [BaseProfile EXCEPT !.min_csr = 99],
     [BaseProfile EXCEPT !.premium_budget = 15000, !.min_csr = 0],
     [BaseProfile EXCEPT !.age = 17]}

AnswerNames == {NameA1, NameB1, NameZ9}

\* what the reasoning collaborator may answer: nothing, or any top pick and
\* any ranking of up to two names, known or not
Answers ==
    {[kind |-> "unreachable", top_pick |-> <<>>, ranked |-> <<>>]}
    \cup {[kind |-> "answer", top_pick |-> t, ranked |-> r] :
            t \in {NameA1, NameZ9},
            r \in {<<>>} \cup {<<n>> : n \in AnswerNames}
                  \cup {<<n, m>> : n \in AnswerNames, m \in AnswerNames}}

CompareNames ==
    {<<NameA1, NameZ9>>, <<NameA1, NameB1>>, <<NameA1>>, <<NameA1, NameA1>>,
     <<NameZ9, NameZ9>>, <<NameA1, NameB1, NameZ9>>}

---------------------------------------------------------------------------
(* Scrape runs: run_scrape_job (spec section 4.1, runNow) *)

MaxInv == 3

Invs == 1 .. MaxInv

\* invocation 1 is lifespan's synchronous startup call
StartupInv == 1

IdleInv ==
    [state |-> "idle", reason |-> "none", status |-> "none", start |-> 0,
     end |-> 0, results |-> [a \in Adapters |-> "pending"]]

\* the run-lock guard at the top of runNow
LockNeverHeld(l) == FALSE
LockHeld(l) == l # 0

\* aggregate status of a run from its per-adapter outcomes
Aggregate(results) ==
    IF \A a \in Adapters : results[a] = "failed" THEN "failed"
    ELSE IF \E a \in Adapters : results[a] = "failed" THEN "partial_success"
    ELSE "success"

\* the normalized record an adapter produces when its fetch succeeds
AdapterRecord(a) ==
    IF a = "adapter1"
    THEN [BasePlan EXCEPT !.premium_annual = 7777]
    ELSE [BasePlan EXCEPT !.plan_name = NameB1, !.provider = ProvYy]

\* runNow: take the lock and run, or return skipped at once when it is held
RunBegin(i) ==
    /\ inv[i].state = "called"
    /\ IF LockHeld(lock)
       THEN /\ inv' = [inv EXCEPT ![i].state = "done", ![i].status = "skipped",
                                  ![i].start = clock, ![i].end = clock]
            /\ UNCHANGED lock
       ELSE /\ inv' = [inv EXCEPT ![i].state = "running", ![i].start = clock]
            /\ lock' = i
    /\ clock' = clock + 1
    /\ UNCHANGED <<plans, nextId, manualIds, resp, nops, stage, dbReady,
                   scheduler, served>>

\* one adapter of a run: its fetch fails, or its record is upserted
RunAdapter(i, a, ok) ==
    /\ inv[i].state = "running"
    /\ inv[i].results[a] = "pending"
    /\ IF ok
       THEN LET r == Upsert(plans, nextId, AdapterRecord(a), a) IN
            /\ plans' = r.plans
            /\ nextId' = r.nextId
            /\ inv' = [inv EXCEPT ![i].results[a] = "success"]
       ELSE /\ inv' = [inv EXCEPT ![i].results[a] = "failed"]
            /\ UNCHANGED <<plans, nextId>>
    /\ UNCHANGED <<manualIds, resp, nops, stage, dbReady, scheduler, lock,
                   clock, served>>

\* the run returns its aggregate status and releases the lock; the
\* per-adapter outcomes are the run's own and go with its return
RunFinish(i) ==
    /\ inv[i].state = "running"
    /\ \A a \in Adapters : inv[i].results[a] # "pending"
    /\ inv' = [inv EXCEPT ![i].state = "done",
                          ![i].status = Aggregate(inv[i].results),
                          ![i].results = IdleInv.results,
                          ![i].end = clock]
    /\ lock' = 0
    /\ clock' = clock + 1
    /\ UNCHANGED <<plans, nextId, manualIds, resp, nops, stage, dbReady,
                   scheduler, served>>

\* the run leaves by an exception; the lock is released on this path too
RunRaise(i) ==
    /\ inv[i].state = "running"
    /\ inv' = [inv EXCEPT ![i].state = "done", ![i].status = "raised",
                          ![i].results = IdleInv.results,
                          ![i].end = clock]
    /\ lock' = 0
    /\ clock' = clock + 1
    /\ UNCHANGED <<plans, nextId, manualIds, resp, nops, stage, dbReady,
                   scheduler, served>>

---------------------------------------------------------------------------
(* lifespan *)

\* the order of lifespan's statements before it yields
StageAfterSchedulerFirst(st) ==
    CASE st = "init_db" -> "start_scheduler"
      [] st = "start_scheduler" -> "run_scrape_job"
      [] st = "run_scrape_job" -> "serving"
StageAfter(st) ==
    CASE st = "init_db" -> "run_scrape_job"
      [] st = "run_scrape_job" -> "start_scheduler"
      [] st = "start_scheduler" -> "serving"

\* init_db()
init_db ==
    /\ stage = "init_db"
    /\ dbReady' = TRUE
    /\ stage' = StageAfter(stage)
    /\ UNCHANGED <<plans, nextId, manualIds, resp, nops, scheduler, lock, inv,
                   clock, served>>

\* run_scrape_job(): the call
StartupCall ==
    /\ stage = "run_scrape_job"
    /\ inv[StartupInv].state = "idle"
    /\ inv' = [inv EXCEPT ![StartupInv].state = "called",
                          ![StartupInv].reason = "startup"]
    /\ UNCHANGED <<plans, nextId, manualIds, resp, nops, stage, dbReady,
                   scheduler, lock, clock, served>>

\* run_scrape_job(): the call returns, or its exception leaves lifespan
StartupReturn ==
    /\ stage = "run_scrape_job"
    /\ inv[StartupInv].state = "done"
    /\ stage' = IF inv[StartupInv].status = "raised" THEN "aborted"
                ELSE StageAfter(stage)
    /\ UNCHANGED <<plans, nextId, manualIds, resp, nops, dbReady, scheduler,
                   lock, inv, clock, served>>

\* scheduler = start_scheduler()
start_scheduler ==
    /\ stage = "start_scheduler"
    /\ scheduler' = TRUE
    /\ stage' = StageAfter(stage)
    /\ UNCHANGED <<plans, nextId, manualIds, resp, nops, dbReady, lock, inv,
                   clock, served>>

\* after the yield: scheduler.shutdown(wait=False)
Shutdown ==
    /\ stage = "serving"
    /\ stage' = "stopped"
    /\ scheduler' = FALSE
    /\ UNCHANGED <<plans, nextId, manualIds, resp, nops, dbReady, lock, inv,
                   clock, served>>

\* the lowest invocation not yet used
FreeInv == {i \in Invs \ {StartupInv} : inv[i].state = "idle"}

\* POST /api/scrape: background_tasks.add_task(run_scrape_job)
trigger_scrape ==
    /\ stage = "serving"
    /\ nops < MaxOps
    /\ FreeInv # {}
    /\ LET i == CHOOSE k \in FreeInv : \A m \in FreeInv : k <= m IN
       inv' = [inv EXCEPT ![i].state = "called", ![i].reason = "manual"]
    /\ resp' = [op |-> "trigger_scrape", status |-> 200]
    /\ nops' = nops + 1
    /\ served' = served + 1
    /\ UNCHANGED <<plans, nextId, manualIds, stage, dbReady, scheduler, lock,
                   clock>>

\* the recurring scheduler fires run_scrape_job
ScheduledTick ==
    /\ scheduler
    /\ nops < MaxOps
    /\ FreeInv # {}
    /\ LET i == CHOOSE k \in FreeInv : \A m \in FreeInv : k <= m IN
       inv' = [inv EXCEPT ![i].state = "called", ![i].reason = "scheduled"]
    /\ nops' = nops + 1
    /\ UNCHANGED <<plans, nextId, manualIds, resp, stage, dbReady, scheduler,
                   lock, clock, served>>

\* GET /api/health: a request that reads nothing
health ==
    /\ stage = "serving"
    /\ nops < MaxOps
    /\ resp' = [op |-> "health", status |-> 200]
    /\ nops' = nops + 1
    /\ served' = served + 1
    /\ UNCHANGED <<plans, nextId, manualIds, stage, dbReady, scheduler, lock,
                   inv, clock>>

---------------------------------------------------------------------------
(* Specifications *)

\* process start
InitLife ==
    /\ plans = {}
    /\ nextId = 1
    /\ manualIds = {}
    /\ resp = [op |-> "none"]
    /\ nops = 0
    /\ stage = "init_db"
    /\ dbReady = FALSE
    /\ scheduler = FALSE
    /\ lock = 0
    /\ inv = [i \in Invs |-> IdleInv]
    /\ clock = 1
    /\ served = 0

NextLife ==
    \/ init_db
    \/ StartupCall
    \/ StartupReturn
    \/ start_scheduler
    \/ Shutdown
    \/ trigger_scrape
    \/ ScheduledTick
    \/ health
    \/ \E i \in Invs : RunBegin(i)
    \/ \E i \in Invs : \E a \in Adapters : \E ok \in BOOLEAN : RunAdapter(i, a, ok)
    \/ \E i \in Invs : RunFinish(i)
    \/ \E i \in Invs : RunRaise(i)

SpecLife == InitLife /\ [][NextLife]_vars

\* the service is up after a startup run that stored nothing
InitStore ==
    /\ plans = {}
    /\ nextId = 1
    /\ manualIds = {}
    /\ resp = [op |-> "none"]
    /\ nops = 0
    /\ stage = "serving"
    /\ dbReady = TRUE
    /\ scheduler = TRUE
    /\ lock = 0
    /\ inv = [i \in Invs |->
                IF i = StartupInv
                THEN [IdleInv EXCEPT !.state = "done", !.reason = "startup",
                                     !.status = "failed", !.start = 1, !.end = 2]
                ELSE IdleInv]
    /\ clock = 3
    /\ served = 0

NextStore ==
    \/ \E plan \in CreateInputs : create_plan(plan)
    \/ \E id \in PlanIds : \E updates \in UpdateInputs : update_plan(id, updates)
    \/ \E id \in PlanIds : delete_plan(id)
    \/ \E id \in PlanIds : get_plan(id)
    \/ \E rec \in UpsertInputs : \E a \in Adapters : ScrapeUpsert(rec, a)

Spec == InitStore /\ [][NextStore]_vars

NextAdvice ==
    \/ \E plan \in AdviceCreateInputs : create_plan(plan)
    \/ \E id \in PlanIds : delete_plan(id)
    \/ \E req \in Profiles : \E answer \in Answers : recommend(req, answer)
    \/ \E names \in CompareNames : \E req \in Profiles : \E answer \in Answers :
         compare_plans_endpoint(names, req, answer)

SpecAdvice == InitStore /\ [][NextAdvice]_vars

---------------------------------------------------------------------------
(* Properties *)

Running == {i \in Invs : inv[i].state = "running"}

Started(i) == inv[i].state \in {"running", "done"}

\* the last instant of invocation i so far
EndOf(i) == IF inv[i].state = "running" THEN clock ELSE inv[i].end

\* invocations i and j overlap in time
Overlap(i, j) == inv[i].start <= EndOf(j) /\ inv[j].start <= EndOf(i)

C2_StoredPlansValid == \A p \in plans : PlanInvariant(p)

\* C3: manual writes always win.  No scrape upsert changes any field of a
\* plan that was inserted through create_plan or edited through update_plan.
C3_ManualSticky ==
    [][resp'.op = "upsert"
         => \A p \in plans : p.id \in manualIds => p \in plans']_vars

C5_RankingContainment ==
    resp.op = "recommend" =>
        /\ resp.status = 200 =>
             /\ resp.body.top_pick \in resp.given
             /\ resp.body.ranked_plans # <<>>
             /\ \A k \in DOMAIN resp.body.ranked_plans :
                  resp.body.ranked_plans[k] \in resp.given
        /\ ( /\ resp.given # {}
             /\ resp.answer.kind = "answer"
             /\ resp.answer.top_pick \notin resp.given
             /\ \A k \in DOMAIN resp.answer.ranked :
                  resp.answer.ranked[k] \notin resp.given )
           => (resp.status = 500 /\ resp.error = "AdvisoryError")

\* a result was returned although the collaborator ranked an unknown name
C5_Witness ==
    /\ resp.op = "recommend"
    /\ resp.status = 200
    /\ \E k \in DOMAIN resp.answer.ranked : resp.answer.ranked[k] \notin resp.given

\* the five eligibility constraints of a profile, as the claim states them
C6_Satisfies(p, profile) ==
    /\ p.age_min <= profile.age /\ profile.age <= p.age_max
    /\ p.sum_assured_min <= profile.sum_assured
    /\ profile.sum_assured <= p.sum_assured_max
    /\ p.premium_annual <= profile.premium_budget
    /\ p.policy_term_min <= profile.policy_term
    /\ profile.policy_term <= p.policy_term_max
    /\ p.claim_settlement_ratio >= profile.min_csr

\* recommend was called with a valid profile that no stored plan satisfies
C6_NoneEligible ==
    /\ resp.op = "recommend"
    /\ ProfileValid(resp.req)
    /\ \A p \in plans : ~C6_Satisfies(p, resp.req)

\* C6 as stated: whenever no stored plan satisfies all five constraints of a
\* valid profile, recommend fails with NoEligiblePlans and returns no result.
C6_FailsWithNoEligiblePlans ==
    C6_NoneEligible => (resp.status # 200 /\ resp.error = "NoEligiblePlans")

\* C6 as amended: whenever no stored plan satisfies all five constraints of a
\* valid profile, recommend fails and returns no result: with
\* NoEligiblePlans when the catalog is not empty, and with the 404
\* "No plans in database" error when it is empty.
C6_FailsWithoutResult ==
    C6_NoneEligible =>
        /\ resp.status # 200
        /\ resp.body = NoResult
        /\ IF plans = {}
           THEN resp.status = 404 /\ resp.error = "NoPlansInDatabase"
           ELSE resp.error = "NoEligiblePlans"

\* a catalog that is not empty and holds no eligible plan
C6_Witness ==
    /\ C6_NoneEligible
    /\ plans # {}
    /\ resp.error = "NoEligiblePlans"

\* the requested names that resolve to a plan of the catalog
C7_Resolved ==
    {n \in Range(resp.plan_names) : \E p \in plans : p.plan_name = n}

\* C7: compare fails and returns no comparison whenever fewer than 2 of the
\* requested plan names resolve to a plan of the catalog.
C7_CompareNeedsTwoNames ==
    (resp.op = "compare" /\ Cardinality(C7_Resolved) < 2) => resp.status # 200

\* C8: degraded start.  A startup scrape run that fails entirely, by its
\* status or by raising, is never fatal to startup.
C8_DegradedStart ==
    ( /\ inv[StartupInv].state = "done"
      /\ inv[StartupInv].status \in {"failed", "raised"} )
    => stage # "aborted"

StartupDone == inv[StartupInv].state = "done"

\* C9: startup ordering.  init_db and the startup scrape run have both
\* finished before the scheduler is started, before any other invocation of
\* run_scrape_job is made and before any request is handled; while the
\* startup run is in progress no request has been handled.
C9_StartupOrdering ==
    /\ scheduler => (dbReady /\ StartupDone)
    /\ served > 0 => (dbReady /\ StartupDone)
    /\ stage = "serving" => (dbReady /\ StartupDone /\ scheduler)
    /\ inv[StartupInv].state # "idle" => dbReady
    /\ inv[StartupInv].state \in {"called", "running"}
         => (served = 0 /\ ~scheduler)
    /\ \A i \in Invs \ {StartupInv} : inv[i].state # "idle" => StartupDone

\* a request has been handled by the running service
C9_Witness ==
    /\ stage = "serving"
    /\ served > 0
    /\ scheduler
    /\ inv[StartupInv].status \in {"success", "partial_success", "failed"}

\* C10: get_plan, update_plan and delete_plan answer 404 for an identifier
\* that is not stored and leave the store unchanged; for a stored identifier
\* update_plan changes no other row, no field that the request leaves null,
\* and never the row's id or source, and delete_plan removes exactly that row.
C10_FrameOfCrud ==
    [][ /\ (resp'.op \in {"get", "update", "delete"} /\ resp'.id \notin Ids(plans))
           => (resp'.status = 404 /\ plans' = plans)
        /\ (resp'.op = "update" /\ resp'.id \in Ids(plans))
           => /\ Ids(plans') = Ids(plans)
              /\ \A q \in plans : q.id # resp'.id => q \in plans'
              /\ \A old \in Row(plans, resp'.id) : \A new \in Row(plans', resp'.id) :
                   /\ new.source = old.source
                   /\ \A f \in PlanFields \ Supplied(resp'.updates) : new[f] = old[f]
        /\ (resp'.op = "delete" /\ resp'.id \in Ids(plans))
           => (resp'.status = 200 /\ plans' = plans \ Row(plans, resp'.id))
      ]_vars

\* an update that supplied some fields was applied to a scraped row
C10_Witness ==
    /\ resp.op = "update"
    /\ resp.status = 200
    /\ Supplied(resp.updates) # {}
    /\ \E p \in Row(plans, resp.id) : p.source # "manual"

=============================================================================
